---- MODULE Spec2Model ----
(***************************************************************************)
(* Control flow of the two entry scripts of the movie rating pipeline:     *)
(* main.py (main() and its __main__ block) and jupyter_analysis.py         *)
(* (interactive_analysis(), its helper functions and its __main__ block).  *)
(* One run of one script is one behaviour.  The library classes the        *)
(* scripts call (DataLoader, DataCleaner, EDAAnalyzer, FeatureEngineer,     *)
(* MovieRatingPredictor) are not part of the two files; their results are  *)
(* modelled by the small operators of the first section.                   *)
(***************************************************************************)
EXTENDS Integers, Sequences, FiniteSets, TLC

VARIABLES
    script,         \* "main" (main.py) or "jupyter" (jupyter_analysis.py)
    pc,             \* next statement group of the running script
    df,             \* value returned by load_data()
    df_clean,       \* value returned by clean_data()
    eda_src,        \* dataframe EDAAnalyzer was constructed from
    eda_report,     \* dict returned by generate_comprehensive_report()
    fe_src,         \* dataframe FeatureEngineer was constructed from
    fe_created,     \* create_features() has run on the feature engineer
    XY,             \* the (X, y) pair returned by prepare_for_ml()
    pred_src,       \* the (X, y) pair MovieRatingPredictor was constructed from
    scores,         \* test R2 of each fitted model held by the predictor
    results_df,     \* main: results_df; jupyter: results / model_results
    final_results,  \* main: final_results (second evaluation)
    best_model_row, \* main: best_model_row; jupyter: best_model
    out,            \* lines printed to the console, in order
    calls,          \* stage operations invoked so far, in order
    ret,            \* value returned by the entry function
    failed_at       \* statement group at which an exception was raised

vars == <<script, pc, df, df_clean, eda_src, eda_report, fe_src, fe_created,
          XY, pred_src, scores, results_df, final_results, best_model_row,
          out, calls, ret, failed_at>>

data == <<df, df_clean, eda_src, eda_report, fe_src, fe_created, XY, pred_src>>
ml   == <<scores, results_df, final_results, best_model_row>>

\* Largest test R2 grade a fitted model can get (grades 0..MaxScore).
MaxScore == 2

Scores == 0..MaxScore

-----------------------------------------------------------------------------
(* Library results *)

ModelNames == <<"Linear Regression", "Random Forest", "Gradient Boosting">>

Models == {ModelNames[i] : i \in 1..Len(ModelNames)}

NoScores == [m \in Models |-> 0]

NoTable == [eval |-> 0, rows |-> <<>>]

NoRow == [Model |-> "unset", R2 |-> 0]

NoXY == [src |-> "unset", created |-> FALSE]

NoReport == [yearly |-> "unset", genre |-> "unset"]

NoRet == [kind |-> "unset", model_results |-> NoTable]

\* DataLoader.load_data(): a dataframe, or None when the file cannot be loaded.
LoadResults == {"None", "raw"}

\* DataCleaner(d).clean_data(): the cleaned dataframe.
clean_data(d) == IF d = "raw" THEN "clean" ELSE "invalid"

\* EDAAnalyzer.generate_comprehensive_report(): 'yearly_ratings' is absent,
\* None or a frame; 'genre_analysis' is absent, empty or a non-empty frame.
Reports == [yearly : {"absent", "None", "frame"},
            genre  : {"absent", "empty", "frame"}]

\* FeatureEngineer.prepare_for_ml(): the (X, y) pair of that engineer.
prepare_for_ml(src, created) == [src |-> src, created |-> created]

RECURSIVE InsertRow(_, _)
InsertRow(row, rows) ==
    IF rows = <<>> THEN <<row>>
    ELSE IF row.R2 > Head(rows).R2 THEN <<row>> \o rows
    ELSE <<Head(rows)>> \o InsertRow(row, Tail(rows))

RECURSIVE SortRows(_)
SortRows(rows) ==
    IF rows = <<>> THEN <<>>
    ELSE InsertRow(Head(rows), SortRows(Tail(rows)))

Count(s, x) == Cardinality({i \in 1..Len(s) : s[i] = x})

\* MovieRatingPredictor.evaluate_models(): one row per model, ranked by
\* test R2; n is the number of this evaluation in the run.
evaluate_models(sc, n) ==
    [eval |-> n,
     rows |-> SortRows([i \in 1..Len(ModelNames) |->
                          [Model |-> ModelNames[i], R2 |-> sc[ModelNames[i]]]])]

-----------------------------------------------------------------------------
(* Statement order of the two entry functions *)

main_order ==
    <<"m_load", "m_clean", "m_eda", "m_features", "m_prepare", "m_train",
      "m_eval", "m_plot", "m_tune_rf", "m_tune_gb", "m_final_eval",
      "m_report_summary", "m_report_best", "m_report_year", "m_report_tail",
      "m_return", "returned">>

jupyter_order ==
    <<"j_load", "j_clean", "j_eda", "j_features", "j_prepare", "j_train",
      "j_eval", "j_plot", "j_insights_overview", "j_insights_year",
      "j_insights_genre", "j_insights_model", "j_insights_recs",
      "j_return", "returned">>

NextIn(order, p) == order[(CHOOSE i \in 1..Len(order) : order[i] = p) + 1]

\* main() with the EDA step moved before cleaning
main_next_eda_first(p) ==
    NextIn(<<"m_load", "m_eda", "m_clean", "m_features", "m_prepare", "m_train",
             "m_eval", "m_plot", "m_tune_rf", "m_tune_gb", "m_final_eval",
             "m_report_summary", "m_report_best", "m_report_year",
             "m_report_tail", "m_return", "returned">>, p)

\* main() without its two hyperparameter_tuning() calls
main_next_skip_tuning(p) ==
    NextIn(<<"m_load", "m_clean", "m_eda", "m_features", "m_prepare", "m_train",
             "m_eval", "m_plot", "m_final_eval",
             "m_report_summary", "m_report_best", "m_report_year",
             "m_report_tail", "m_return", "returned">>, p)

\* main() retraining after the final evaluation
main_next_retrain(p) ==
    IF p = "m_final_eval" THEN "m_train" ELSE NextIn(main_order, p)

main_next(p) == NextIn(main_order, p)

jupyter_next(p) == NextIn(jupyter_order, p)

-----------------------------------------------------------------------------
Init ==
    /\ script \in {"main", "jupyter"}
    /\ pc = IF script = "main" THEN "m_load" ELSE "j_load"
    /\ df = "unset"
    /\ df_clean = "unset"
    /\ eda_src = "unset"
    /\ eda_report = NoReport
    /\ fe_src = "unset"
    /\ fe_created = FALSE
    /\ XY = NoXY
    /\ pred_src = NoXY
    /\ scores = NoScores
    /\ results_df = NoTable
    /\ final_results = NoTable
    /\ best_model_row = NoRow
    /\ out = <<>>
    /\ calls = <<>>
    /\ ret = NoRet
    /\ failed_at = "none"

-----------------------------------------------------------------------------
(* main.py *)

\* main() without the None check
main_load_failed_never(d) == FALSE

main_load_failed(d) == d = "None"

\* main.py 21-36
main_load ==
    /\ pc = "m_load"
    /\ \E r \in LoadResults :
         /\ df' = r
         /\ IF main_load_failed(r)
            THEN /\ out' = out \o <<"MOVIE RATING PREDICTION SYSTEM",
                                    "Failed to load data. Please check the file path.">>
                 /\ calls' = calls \o <<"load_data">>
                 /\ ret' = [kind |-> "None", model_results |-> NoTable]
                 /\ pc' = "returned"
            ELSE /\ out' = out \o <<"MOVIE RATING PREDICTION SYSTEM">>
                 /\ calls' = calls \o <<"load_data", "get_data_info", "get_basic_stats">>
                 /\ ret' = ret
                 /\ pc' = main_next(pc)
    /\ UNCHANGED <<script, df_clean, eda_src, eda_report, fe_src, fe_created,
                   XY, pred_src, ml, failed_at>>

\* main.py 38-47
main_clean ==
    /\ pc = "m_clean"
    /\ df_clean' = clean_data(df)
    /\ calls' = calls \o <<"clean_data", "get_cleaned_summary">>
    /\ out' = out \o <<"2. CLEANING DATA...", "Cleaning Summary:">>
    /\ pc' = main_next(pc)
    /\ UNCHANGED <<script, df, eda_src, eda_report, fe_src, fe_created, XY,
                   pred_src, ml, ret, failed_at>>

main_eda_input == df_clean

\* main.py 49-52
main_eda ==
    /\ pc = "m_eda"
    /\ eda_src' = main_eda_input
    /\ \E r \in Reports : eda_report' = r
    /\ calls' = calls \o <<"generate_comprehensive_report">>
    /\ out' = out \o <<"3. EXPLORATORY DATA ANALYSIS...">>
    /\ pc' = main_next(pc)
    /\ UNCHANGED <<script, df, df_clean, fe_src, fe_created, XY, pred_src, ml,
                   ret, failed_at>>

main_fe_input == df_clean

\* main.py 54-57
main_features ==
    /\ pc = "m_features"
    /\ fe_src' = main_fe_input
    /\ fe_created' = TRUE
    /\ calls' = calls \o <<"create_features">>
    /\ out' = out \o <<"4. FEATURE ENGINEERING...">>
    /\ pc' = main_next(pc)
    /\ UNCHANGED <<script, df, df_clean, eda_src, eda_report, XY, pred_src, ml,
                   ret, failed_at>>

\* main.py 59-60
main_prepare ==
    /\ pc = "m_prepare"
    /\ XY' = prepare_for_ml(fe_src, fe_created)
    /\ calls' = calls \o <<"prepare_for_ml">>
    /\ pc' = main_next(pc)
    /\ UNCHANGED <<script, df, df_clean, eda_src, eda_report, fe_src,
                   fe_created, pred_src, ml, out, ret, failed_at>>

main_predictor_input == XY

\* main.py 62-67
main_train ==
    /\ pc = "m_train"
    /\ pred_src' = main_predictor_input
    /\ \E sc \in [Models -> Scores] : scores' = sc
    /\ calls' = calls \o <<"train_models">>
    /\ out' = out \o <<"5. MACHINE LEARNING MODELING...">>
    /\ pc' = main_next(pc)
    /\ UNCHANGED <<script, df, df_clean, eda_src, eda_report, fe_src,
                   fe_created, XY, results_df, final_results, best_model_row,
                   ret, failed_at>>

\* main.py 69-70
main_eval ==
    /\ pc = "m_eval"
    /\ results_df' = evaluate_models(scores, Count(calls, "evaluate_models") + 1)
    /\ calls' = calls \o <<"evaluate_models">>
    /\ pc' = main_next(pc)
    /\ UNCHANGED <<script, data, scores, final_results, best_model_row, out,
                   ret, failed_at>>

\* main.py 72-77
main_plot ==
    /\ pc = "m_plot"
    /\ calls' = calls \o <<"plot_model_comparison", "plot_predictions",
                           "get_feature_importance">>
    /\ pc' = main_next(pc)
    /\ UNCHANGED <<script, data, ml, out, ret, failed_at>>

\* predictor.hyperparameter_tuning(m): refits model m, whose test R2 changes.
hyperparameter_tuning(m) ==
    /\ \E s \in Scores : scores' = [scores EXCEPT ![m] = s]
    /\ calls' = calls \o <<"hyperparameter_tuning " \o m>>

\* main.py 79-81
main_tune_rf ==
    /\ pc = "m_tune_rf"
    /\ hyperparameter_tuning("Random Forest")
    /\ out' = out \o <<"6. HYPERPARAMETER TUNING...">>
    /\ pc' = main_next(pc)
    /\ UNCHANGED <<script, data, results_df, final_results, best_model_row,
                   ret, failed_at>>

\* main.py 82
main_tune_gb ==
    /\ pc = "m_tune_gb"
    /\ hyperparameter_tuning("Gradient Boosting")
    /\ pc' = main_next(pc)
    /\ UNCHANGED <<script, data, results_df, final_results, best_model_row,
                   out, ret, failed_at>>

\* main.py 84-85
main_final_eval ==
    /\ pc = "m_final_eval"
    /\ final_results' = evaluate_models(scores, Count(calls, "evaluate_models") + 1)
    /\ calls' = calls \o <<"evaluate_models">>
    /\ pc' = main_next(pc)
    /\ UNCHANGED <<script, data, scores, results_df, best_model_row, out, ret,
                   failed_at>>

\* main.py 87-96
main_report_summary ==
    /\ pc = "m_report_summary"
    /\ out' = out \o <<"FINAL ANALYSIS REPORT", "Dataset Summary:">>
    /\ pc' = main_next(pc)
    /\ UNCHANGED <<script, data, ml, calls, ret, failed_at>>

\* an "except: pass" around every statement group
propagate_swallowed(p) ==
    IF \E i \in 1..Len(main_order) : main_order[i] = p
    THEN main_next(p) ELSE jupyter_next(p)

\* An exception nothing catches ends the run.
propagate(p) == "raised"

\* results.iloc[-1]
BestRow_last(t) == t.rows[Len(t.rows)]

\* results.iloc[0]
BestRow(t) == t.rows[1]

\* the report reading the pre-tuning table
main_report_table_first == results_df

main_report_table == final_results

\* main.py 98-103
main_report_best ==
    /\ pc = "m_report_best"
    /\ IF main_report_table.rows = <<>>
       THEN /\ pc' = propagate(pc)
            /\ failed_at' = pc
            /\ out' = out \o <<"Best Model Performance:">>
            /\ UNCHANGED best_model_row
       ELSE /\ best_model_row' = BestRow(main_report_table)
            /\ out' = out \o <<"Best Model Performance:", "- Model:", "- Test R2:">>
            /\ pc' = main_next(pc)
            /\ UNCHANGED failed_at
    /\ UNCHANGED <<script, data, scores, results_df, final_results, calls, ret>>

\* 'yearly_ratings' in eda_report
main_year_guard_key_only(rep) == rep.yearly # "absent"

\* 'yearly_ratings' in eda_report and eda_report['yearly_ratings'] is not None
main_year_guard(rep) == rep.yearly # "absent" /\ rep.yearly # "None"

\* main.py 105-108
main_report_year ==
    /\ pc = "m_report_year"
    /\ IF main_year_guard(eda_report)
       THEN IF eda_report.yearly = "frame"
            THEN /\ out' = out \o <<"Key Insights:", "- Best year for movies:">>
                 /\ pc' = main_next(pc)
                 /\ UNCHANGED failed_at
            ELSE /\ out' = out \o <<"Key Insights:">>
                 /\ pc' = propagate(pc)
                 /\ failed_at' = pc
       ELSE /\ out' = out \o <<"Key Insights:">>
            /\ pc' = main_next(pc)
            /\ UNCHANGED failed_at
    /\ UNCHANGED <<script, data, ml, calls, ret>>

\* main.py 110-111
main_report_tail ==
    /\ pc = "m_report_tail"
    /\ out' = out \o <<"- Model can predict movie ratings with",
                       "- Average prediction error:">>
    /\ pc' = main_next(pc)
    /\ UNCHANGED <<script, data, ml, calls, ret, failed_at>>

main_returned_results == final_results

\* main.py 113-124
main_return ==
    /\ pc = "m_return"
    /\ out' = out \o <<"ANALYSIS COMPLETED SUCCESSFULLY!">>
    /\ ret' = [kind |-> "dict", model_results |-> main_returned_results]
    /\ pc' = main_next(pc)
    /\ UNCHANGED <<script, data, ml, calls, failed_at>>

\* main.py 126-155
main_block ==
    /\ script = "main"
    /\ pc = "returned"
    /\ out' = out \o <<"ADDITIONAL ANALYSIS SUGGESTIONS">>
    /\ pc' = "done"
    /\ UNCHANGED <<script, data, ml, calls, ret, failed_at>>

main ==
    \/ main_load \/ main_clean \/ main_eda \/ main_features \/ main_prepare
    \/ main_train \/ main_eval \/ main_plot \/ main_tune_rf \/ main_tune_gb
    \/ main_final_eval \/ main_report_summary \/ main_report_best
    \/ main_report_year \/ main_report_tail \/ main_return \/ main_block

-----------------------------------------------------------------------------
(* jupyter_analysis.py *)

\* load_and_explore_data(), line 32
load_and_explore_failed(d) == d = "None"

\* interactive_analysis(), line 137
jupyter_load_failed(d) == d = "None"

\* jupyter_analysis.py 131-138 with load_and_explore_data() 24-39
jupyter_load ==
    /\ pc = "j_load"
    /\ \E r \in LoadResults :
         LET inner_failed == load_and_explore_failed(r)
             returned     == IF inner_failed THEN "None" ELSE r
             printed      == <<"INTERACTIVE MOVIE RATING ANALYSIS",
                               "Loading and exploring data...">>
                             \o (IF inner_failed
                                 THEN <<"Error: Could not load data file">>
                                 ELSE <<>>)
             called       == <<"load_data">>
                             \o (IF inner_failed THEN <<>> ELSE <<"get_data_info">>)
         IN /\ df' = returned
            /\ out' = out \o printed
            /\ calls' = calls \o called
            /\ IF jupyter_load_failed(returned)
               THEN /\ ret' = [kind |-> "None", model_results |-> NoTable]
                    /\ pc' = "returned"
               ELSE /\ ret' = ret
                    /\ pc' = jupyter_next(pc)
    /\ UNCHANGED <<script, df_clean, eda_src, eda_report, fe_src, fe_created,
                   XY, pred_src, ml, failed_at>>

\* jupyter_analysis.py 141 with clean_and_preprocess() 41-51
jupyter_clean ==
    /\ pc = "j_clean"
    /\ df_clean' = clean_data(df)
    /\ calls' = calls \o <<"clean_data">>
    /\ out' = out \o <<"Cleaning and preprocessing data...", "Cleaned data shape:">>
    /\ pc' = jupyter_next(pc)
    /\ UNCHANGED <<script, df, eda_src, eda_report, fe_src, fe_created, XY,
                   pred_src, ml, ret, failed_at>>

\* perform_eda(df)
jupyter_eda_input_raw == df

jupyter_eda_input == df_clean

\* jupyter_analysis.py 144 with perform_eda() 53-62
jupyter_eda ==
    /\ pc = "j_eda"
    /\ eda_src' = jupyter_eda_input
    /\ \E r \in Reports : eda_report' = r
    /\ calls' = calls \o <<"generate_comprehensive_report">>
    /\ out' = out \o <<"Performing Exploratory Data Analysis...">>
    /\ pc' = jupyter_next(pc)
    /\ UNCHANGED <<script, df, df_clean, fe_src, fe_created, XY, pred_src, ml,
                   ret, failed_at>>

jupyter_fe_input == df_clean

\* jupyter_analysis.py 147 with build_and_evaluate_models() 64-70
jupyter_features ==
    /\ pc = "j_features"
    /\ fe_src' = jupyter_fe_input
    /\ fe_created' = TRUE
    /\ calls' = calls \o <<"create_features">>
    /\ out' = out \o <<"Building and evaluating machine learning models...">>
    /\ pc' = jupyter_next(pc)
    /\ UNCHANGED <<script, df, df_clean, eda_src, eda_report, XY, pred_src, ml,
                   ret, failed_at>>

\* build_and_evaluate_models() 71
jupyter_prepare ==
    /\ pc = "j_prepare"
    /\ XY' = prepare_for_ml(fe_src, fe_created)
    /\ calls' = calls \o <<"prepare_for_ml">>
    /\ pc' = jupyter_next(pc)
    /\ UNCHANGED <<script, df, df_clean, eda_src, eda_report, fe_src,
                   fe_created, pred_src, ml, out, ret, failed_at>>

jupyter_predictor_input == XY

\* build_and_evaluate_models() 73-75
jupyter_train ==
    /\ pc = "j_train"
    /\ pred_src' = jupyter_predictor_input
    /\ \E sc \in [Models -> Scores] : scores' = sc
    /\ calls' = calls \o <<"train_models">>
    /\ pc' = jupyter_next(pc)
    /\ UNCHANGED <<script, df, df_clean, eda_src, eda_report, fe_src,
                   fe_created, XY, results_df, final_results, best_model_row,
                   out, ret, failed_at>>

\* build_and_evaluate_models() 77-78
jupyter_eval ==
    /\ pc = "j_eval"
    /\ results_df' = evaluate_models(scores, Count(calls, "evaluate_models") + 1)
    /\ calls' = calls \o <<"evaluate_models">>
    /\ pc' = jupyter_next(pc)
    /\ UNCHANGED <<script, data, scores, final_results, best_model_row, out,
                   ret, failed_at>>

\* build_and_evaluate_models() 80-87
jupyter_plot ==
    /\ pc = "j_plot"
    /\ calls' = calls \o <<"plot_model_comparison", "plot_predictions",
                           "get_feature_importance">>
    /\ pc' = jupyter_next(pc)
    /\ UNCHANGED <<script, data, ml, out, ret, failed_at>>

\* jupyter_analysis.py 150 with generate_insights() 91-99
jupyter_insights_overview ==
    /\ pc = "j_insights_overview"
    /\ calls' = calls \o <<"generate_insights">>
    /\ out' = out \o <<"KEY INSIGHTS AND RECOMMENDATIONS", "1. DATASET OVERVIEW:">>
    /\ pc' = jupyter_next(pc)
    /\ UNCHANGED <<script, data, ml, ret, failed_at>>

\* 'yearly_ratings' in eda_report and eda_report['yearly_ratings'] is not None
jupyter_year_guard(rep) == rep.yearly # "absent" /\ rep.yearly # "None"

\* generate_insights() 101-107
jupyter_insights_year ==
    /\ pc = "j_insights_year"
    /\ IF jupyter_year_guard(eda_report)
       THEN IF eda_report.yearly = "frame"
            THEN /\ out' = out \o <<"2. TEMPORAL INSIGHTS:",
                                    "- Best year for movies:",
                                    "- Most productive year:">>
                 /\ pc' = jupyter_next(pc)
                 /\ UNCHANGED failed_at
            ELSE /\ pc' = propagate(pc)
                 /\ failed_at' = pc
                 /\ UNCHANGED out
       ELSE /\ pc' = jupyter_next(pc)
            /\ UNCHANGED <<out, failed_at>>
    /\ UNCHANGED <<script, data, ml, calls, ret>>

\* 'genre_analysis' in eda_report and len(eda_report['genre_analysis']) > 0
jupyter_genre_guard(rep) == rep.genre # "absent" /\ rep.genre # "empty"

\* generate_insights() 109-113
jupyter_insights_genre ==
    /\ pc = "j_insights_genre"
    /\ IF jupyter_genre_guard(eda_report)
       THEN IF eda_report.genre = "frame"
            THEN /\ out' = out \o <<"3. GENRE INSIGHTS:", "- Highest rated genre:">>
                 /\ pc' = jupyter_next(pc)
                 /\ UNCHANGED failed_at
            ELSE /\ out' = out \o <<"3. GENRE INSIGHTS:">>
                 /\ pc' = propagate(pc)
                 /\ failed_at' = pc
       ELSE /\ pc' = jupyter_next(pc)
            /\ UNCHANGED <<out, failed_at>>
    /\ UNCHANGED <<script, data, ml, calls, ret>>

jupyter_report_table == results_df

\* generate_insights() 115-120
jupyter_insights_model ==
    /\ pc = "j_insights_model"
    /\ IF jupyter_report_table.rows = <<>>
       THEN /\ pc' = propagate(pc)
            /\ failed_at' = pc
            /\ out' = out \o <<"4. MODEL PERFORMANCE:">>
            /\ UNCHANGED best_model_row
       ELSE /\ best_model_row' = BestRow(jupyter_report_table)
            /\ out' = out \o <<"4. MODEL PERFORMANCE:", "- Best model:",
                               "- Prediction accuracy (R2):">>
            /\ pc' = jupyter_next(pc)
            /\ UNCHANGED failed_at
    /\ UNCHANGED <<script, data, scores, results_df, final_results, calls, ret>>

\* generate_insights() 122-127
jupyter_insights_recs ==
    /\ pc = "j_insights_recs"
    /\ out' = out \o <<"5. RECOMMENDATIONS:">>
    /\ pc' = jupyter_next(pc)
    /\ UNCHANGED <<script, data, ml, calls, ret, failed_at>>

jupyter_returned_results == results_df

\* jupyter_analysis.py 152-158
jupyter_return ==
    /\ pc = "j_return"
    /\ ret' = [kind |-> "dict", model_results |-> jupyter_returned_results]
    /\ pc' = jupyter_next(pc)
    /\ UNCHANGED <<script, data, ml, out, calls, failed_at>>

\* jupyter_analysis.py 160-171
jupyter_block ==
    /\ script = "jupyter"
    /\ pc = "returned"
    /\ out' = out \o <<"ANALYSIS COMPLETE!">>
    /\ pc' = "done"
    /\ UNCHANGED <<script, data, ml, calls, ret, failed_at>>

interactive_analysis ==
    \/ jupyter_load \/ jupyter_clean \/ jupyter_eda \/ jupyter_features
    \/ jupyter_prepare \/ jupyter_train \/ jupyter_eval \/ jupyter_plot
    \/ jupyter_insights_overview \/ jupyter_insights_year
    \/ jupyter_insights_genre \/ jupyter_insights_model
    \/ jupyter_insights_recs \/ jupyter_return \/ jupyter_block

-----------------------------------------------------------------------------
(* A library call that raises *)

\* Statement groups whose library calls can raise in the current state.
CanRaise ==
    \/ pc \in {"m_clean", "m_eda", "m_features", "m_prepare", "m_train",
               "m_eval", "m_plot", "m_tune_rf", "m_tune_gb", "m_final_eval",
               "m_report_summary", "m_report_best"}
    \/ pc \in {"j_clean", "j_eda", "j_features", "j_prepare", "j_train",
               "j_eval", "j_plot", "j_insights_overview", "j_insights_model"}
    \/ pc = "m_report_year" /\ main_year_guard(eda_report)
    \/ pc = "j_insights_year" /\ jupyter_year_guard(eda_report)
    \/ pc = "j_insights_genre" /\ jupyter_genre_guard(eda_report)

\* The first library call of the statement group raises; neither script has
\* a try statement.
Raise ==
    /\ CanRaise
    /\ pc' = propagate(pc)
    /\ failed_at' = pc
    /\ UNCHANGED <<script, data, ml, out, calls, ret>>

-----------------------------------------------------------------------------
Next == main \/ interactive_analysis

Spec == Init /\ [][Next]_vars

NextFail == Next \/ Raise

SpecFail == Init /\ [][NextFail]_vars
-----------------------------------------------------------------------------
(* Vocabulary of the properties *)

Printed(line) == \E i \in 1..Len(out) : out[i] = line

PrintedIn(o, line) == \E i \in 1..Len(o) : o[i] = line

Called(op) == \E i \in 1..Len(calls) : calls[i] = op

TuneRF == "hyperparameter_tuning Random Forest"

TuneGB == "hyperparameter_tuning Gradient Boosting"

\* Position of the k-th occurrence of op in calls (0 when there is none).
Position(op, k) ==
    LET hits == {i \in 1..Len(calls) :
                   calls[i] = op /\ Count(SubSeq(calls, 1, i), op) = k}
    IN IF hits = {} THEN 0 ELSE CHOOSE i \in hits : TRUE

\* Stage of the pipeline an operation belongs to:
\* load, clean, explore, engineer features, train, evaluate, report.
StageOf(op) ==
    CASE op \in {"load_data", "get_data_info", "get_basic_stats"} -> "load"
      [] op \in {"clean_data", "get_cleaned_summary"} -> "clean"
      [] op = "generate_comprehensive_report" -> "explore"
      [] op \in {"create_features", "prepare_for_ml"} -> "engineer"
      [] op = "train_models" -> "train"
      [] op \in {"evaluate_models", "plot_model_comparison", "plot_predictions",
                 "get_feature_importance", TuneRF, TuneGB} -> "evaluate"
      [] op = "generate_insights" -> "report"

StageOrder == <<"load", "clean", "explore", "engineer", "train", "evaluate", "report">>

StageRank(st) == CHOOSE i \in 1..Len(StageOrder) : StageOrder[i] = st

OpRank(op) == StageRank(StageOf(op))

\* Stage a statement group belongs to.
PcRank(p) ==
    CASE p \in {"m_load", "j_load"} -> 1
      [] p \in {"m_clean", "j_clean"} -> 2
      [] p \in {"m_eda", "j_eda"} -> 3
      [] p \in {"m_features", "j_features", "m_prepare", "j_prepare"} -> 4
      [] p \in {"m_train", "j_train"} -> 5
      [] p \in {"m_eval", "j_eval", "m_plot", "j_plot", "m_tune_rf",
                "m_tune_gb", "m_final_eval"} -> 6
      [] OTHER -> 7

ReportStarted ==
    Printed("FINAL ANALYSIS REPORT") \/ Printed("KEY INSIGHTS AND RECOMMENDATIONS")

ReportEnded ==
    Printed("- Average prediction error:") \/ Printed("5. RECOMMENDATIONS:")

SuccessBanner ==
    Printed("ANALYSIS COMPLETED SUCCESSFULLY!") \/ Printed("ANALYSIS COMPLETE!")

FailureMessage ==
    IF script = "main"
    THEN Printed("Failed to load data. Please check the file path.")
    ELSE Printed("Error: Could not load data file")

IsRanked(t) ==
    \A i, j \in 1..Len(t.rows) : i < j => t.rows[i].R2 >= t.rows[j].R2

\* The table the report of the running script reads.
ReportedTable == IF script = "main" THEN final_results ELSE results_df

YearPresent == eda_report.yearly \notin {"unset", "absent", "None"}

GenrePresent == eda_report.genre \notin {"unset", "absent", "empty"}

-----------------------------------------------------------------------------
(* C1 *)

\* C1: when load_data() returns None the failure message is printed and the
\* entry function returns at once with None: load_data is the only stage
\* operation of the run, and nothing downstream was built or printed.
C1_LoadNoneReturns ==
    df = "None" =>
        /\ calls = <<"load_data">>
        /\ FailureMessage
        /\ pc \in {"returned", "done"}
        /\ ret.kind = "None"
        /\ df_clean = "unset" /\ eda_src = "unset" /\ fe_src = "unset"
        /\ pred_src = NoXY /\ results_df = NoTable /\ final_results = NoTable
        /\ ~ReportStarted

C1_Witness == df = "None" /\ pc = "returned" /\ calls = <<"load_data">>

(* C2 *)

\* C2: in a run whose load succeeded the stage operations are invoked in the
\* order load, clean, explore, engineer, train, evaluate, report: the log of
\* calls starts with the load stage, never goes back to an earlier stage and
\* never skips one; the report is printed only after an evaluation returned
\* a table.
C2_StagesInOrder ==
    df = "raw" =>
        /\ Len(calls) > 0 /\ OpRank(calls[1]) = 1
        /\ \A i \in 1..(Len(calls) - 1) :
              /\ OpRank(calls[i]) <= OpRank(calls[i + 1])
              /\ OpRank(calls[i + 1]) <= OpRank(calls[i]) + 1
        /\ ReportStarted =>
              /\ Called("evaluate_models")
              /\ ReportedTable # NoTable
              /\ \A k \in 1..6 : \E i \in 1..Len(calls) : OpRank(calls[i]) = k

C2_Witness == df = "raw" /\ pc = "done" /\ script = "main" /\ ReportStarted

(* C3 *)

\* C3 as stated: once the report is being printed the run has fitted the
\* models, scored them, tuned both tunable models and ranked the table, in
\* either script.
C3_WholeModelStageEverywhere ==
    ReportStarted =>
        /\ Called("train_models") /\ Called("evaluate_models")
        /\ Called(TuneRF) /\ Called(TuneGB)
        /\ IsRanked(ReportedTable)

\* C3 amended: once the report is being printed the run has fitted the
\* models, scored them and ranked the reported table by test R2; main() has
\* also tuned Random Forest and Gradient Boosting before its last evaluation,
\* while interactive_analysis() has tuned nothing.
C3_ModelStagePerScript ==
    ReportStarted =>
        /\ Called("train_models") /\ Called("evaluate_models")
        /\ Position("train_models", 1) < Position("evaluate_models", 1)
        /\ ReportedTable # NoTable /\ IsRanked(ReportedTable)
        /\ script = "main" =>
              /\ Called(TuneRF) /\ Called(TuneGB)
              /\ Position(TuneRF, 1) < Position("evaluate_models", 2)
              /\ Position(TuneGB, 1) < Position("evaluate_models", 2)
        /\ script = "jupyter" => ~Called(TuneRF) /\ ~Called(TuneGB)

C3_Witness ==
    script = "jupyter" /\ ReportStarted /\ pc = "done" /\ ~Called(TuneRF)

(* C4 *)

\* C4: the row reported as best has a test R2 at least that of every row of
\* the table the report reads, and every results table is in non-increasing
\* order of test R2.
C4_BestIsMax ==
    /\ IsRanked(results_df) /\ IsRanked(final_results)
    /\ best_model_row # NoRow =>
          \A i \in 1..Len(ReportedTable.rows) :
             best_model_row.R2 >= ReportedTable.rows[i].R2

C4_Witness ==
    /\ best_model_row # NoRow
    /\ script = "main"
    /\ best_model_row.R2 > ReportedTable.rows[Len(ReportedTable.rows)].R2
    /\ results_df.rows # final_results.rows

(* C5 *)

StageOps ==
    {"load_data", "clean_data", "generate_comprehensive_report",
     "create_features", "prepare_for_ml", "train_models", "evaluate_models"}

\* C5 as stated: every stage operation is executed at most once in a run.
C5_EveryStageAtMostOnce == \A op \in StageOps : Count(calls, op) <= 1

\* C5 amended: every stage operation other than evaluate_models is executed
\* at most once; evaluate_models is executed at most once by
\* interactive_analysis() and at most twice by main(), the second time only
\* after both hyperparameter tunings.
C5_SinglePassButEvaluate ==
    /\ \A op \in StageOps \ {"evaluate_models"} : Count(calls, op) <= 1
    /\ Count(calls, "evaluate_models") <= (IF script = "main" THEN 2 ELSE 1)
    /\ Count(calls, "evaluate_models") = 2 =>
          /\ Position("evaluate_models", 1) < Position(TuneRF, 1)
          /\ Position(TuneGB, 1) < Position("evaluate_models", 2)

C5_Witness ==
    script = "main" /\ Count(calls, "evaluate_models") = 2 /\ pc = "done"

(* C6 *)

\* C6: a script run whose load failed prints no completion banner.
C6_NoBannerAfterFailedLoad == df = "None" => ~SuccessBanner

(* C7 *)

ReportPcs ==
    {"m_report_summary", "m_report_best", "m_report_year", "m_report_tail",
     "j_insights_overview", "j_insights_year", "j_insights_genre",
     "j_insights_model", "j_insights_recs"}

\* C7 as stated: after a stage failed the run is over, no operation of a
\* later stage was invoked, no line of the final report or insights and no
\* success banner is printed, and nothing was returned.
C7_FailureLeavesNoReport ==
    failed_at # "none" =>
        /\ pc = "raised"
        /\ \A i \in 1..Len(calls) : OpRank(calls[i]) <= PcRank(failed_at)
        /\ ~ReportStarted
        /\ ~SuccessBanner
        /\ ret = NoRet

\* C7 amended: after a stage failed the run is over (no statement group is
\* enabled), no operation of a later stage was invoked, no success banner is
\* printed and nothing was returned; the report is not printed at all when
\* the failure is before the report stage, and when the report stage itself
\* fails only the lines before the failing statement are printed, never the
\* closing lines of the report.
C7_FailurePropagates ==
    failed_at # "none" =>
        /\ pc = "raised"
        /\ ~ENABLED NextFail
        /\ \A i \in 1..Len(calls) : OpRank(calls[i]) <= PcRank(failed_at)
        /\ failed_at \notin ReportPcs => ~ReportStarted
        /\ ~ReportEnded
        /\ ~SuccessBanner
        /\ ret = NoRet

C7_Witness ==
    failed_at = "m_report_year" /\ pc = "raised" /\ ReportStarted

(* C8 *)

\* C8: in main() the tunings of Random Forest and then Gradient Boosting lie
\* between the first and the second evaluate_models() call, and the row the
\* report prints and the returned 'model_results' come from the second
\* evaluation.
C8_ReportUsesFinalEvaluation ==
    script = "main" =>
        /\ Called(TuneRF) => Position("evaluate_models", 1) \in 1..(Position(TuneRF, 1) - 1)
        /\ Called(TuneGB) => Position(TuneRF, 1) \in 1..(Position(TuneGB, 1) - 1)
        /\ Count(calls, "evaluate_models") = 2 =>
              /\ Called(TuneGB)
              /\ Position(TuneGB, 1) < Position("evaluate_models", 2)
              /\ Count(calls, TuneRF) = 1 /\ Count(calls, TuneGB) = 1
        /\ results_df.eval \in {0, 1}
        /\ final_results.eval \in {0, 2}
        /\ best_model_row # NoRow =>
              /\ final_results.eval = 2
              /\ best_model_row = final_results.rows[1]
        /\ ret.kind = "dict" =>
              /\ ret.model_results = final_results
              /\ ret.model_results.eval = 2

C8_Witness ==
    /\ script = "main" /\ pc = "done" /\ ret.kind = "dict"
    /\ results_df.rows[1] # final_results.rows[1]
    /\ best_model_row = final_results.rows[1]

(* C9 *)

\* C9: the EDA analyzer and the feature engineer are built from the cleaned
\* dataframe, and the predictor from the (X, y) pair that prepare_for_ml()
\* returned after create_features() ran on that engineer.
C9_OnlyCleanDataDownstream ==
    /\ eda_src \in {"unset", "clean"}
    /\ eda_src # "unset" => eda_src = df_clean
    /\ fe_src \in {"unset", "clean"}
    /\ fe_src # "unset" => fe_src = df_clean
    /\ XY # NoXY => XY.src = fe_src /\ XY.created
    /\ pred_src # NoXY =>
          /\ pred_src = XY
          /\ pred_src.src = "clean"
          /\ pred_src.created

C9_Witness ==
    /\ script = "jupyter" /\ pred_src # NoXY /\ eda_src = "clean"
    /\ df = "raw" /\ pc = "done"

(* C10 *)

AfterYearStep ==
    pc \in {"m_report_tail", "m_return", "j_insights_genre", "j_insights_model",
            "j_insights_recs", "j_return"} \/ ret.kind = "dict"

AfterGenreStep ==
    script = "jupyter"
    /\ (pc \in {"j_insights_model", "j_insights_recs", "j_return"} \/ ret.kind = "dict")

C10_Lines ==
    /\ Printed("- Best year for movies:") => YearPresent
    /\ AfterYearStep => (YearPresent <=> Printed("- Best year for movies:"))
    /\ Printed("- Highest rated genre:") => GenrePresent
    /\ AfterGenreStep => (GenrePresent <=> Printed("- Highest rated genre:"))
    /\ failed_at = "none" /\ pc # "raised"
    /\ ret.kind = "dict" =>
          /\ ReportEnded
          /\ script = "main" =>
                /\ Printed("Best Model Performance:")
                /\ Printed("- Model can predict movie ratings with")
          /\ script = "jupyter" => Printed("4. MODEL PERFORMANCE:")

C10_Skip ==
    /\ pc = "m_report_year" /\ ~YearPresent =>
          pc' = "m_report_tail" /\ ~PrintedIn(out', "- Best year for movies:")
    /\ pc = "j_insights_year" /\ ~YearPresent =>
          pc' = "j_insights_genre" /\ out' = out
    /\ pc = "j_insights_genre" /\ ~GenrePresent =>
          pc' = "j_insights_model" /\ out' = out

\* C10: the 'Best year' line is printed exactly when the report has a
\* non-None 'yearly_ratings' (the genre line exactly when 'genre_analysis'
\* is present and non-empty); a false guard skips its line, raises nothing
\* and moves on to the next part of the report, and a run that returns its
\* dictionary has printed the model-performance lines and the end of the
\* report.
C10_GuardsNeverBlock == []C10_Lines /\ [][C10_Skip]_vars

C10_Witness ==
    /\ script = "main" /\ ret.kind = "dict" /\ ~YearPresent
    /\ ~Printed("- Best year for movies:")
    /\ Printed("- Average prediction error:")
====
